---- MODULE Spec2Model ----
(***************************************************************************)
(* A model of the galahad / joeflow workflow layer: the Task lifecycle     *)
(* (save, finish, fail, enqueue, start_next_tasks) of galahad/models.py    *)
(* and the request handlers of galahad/views.py (human task views, start   *)
(* view, manual override), run inside database transactions with           *)
(* on-commit hooks and a task queue.                                       *)
(*                                                                         *)
(* Stored state is the committed database (proc, task, links) and the      *)
(* queue.  A handler body runs in a transaction: it works on the working   *)
(* copy (wproc, wtask, wlinks) and registers on-commit hooks; Commit makes *)
(* the working copy the stored state and then runs the hooks, Rollback     *)
(* discards both.  Transactions are serial: one is open at a time, except  *)
(* in SpecRace, where two requests run in transactions of their own.       *)
(***************************************************************************)
EXTENDS Integers, Sequences, FiniteSets, TLC

\* ---------------------------------------------------------------- bounds
\* No handler inserts a task row beyond this primary key.
MaxTasks == 6
\* Longest next_tasks list an override submission carries.
MaxChoices == 2

\* ------------------------------------------------------------- constants
Null == "null"            \* Python None / SQL NULL
NoPk == 0                 \* None where a primary key is expected (keys start at 1)
Absent == {"absent"}      \* update_fields not passed
NoNodes == <<"none">>     \* next_nodes not passed (None)
HUMAN == "human"
MACHINE == "machine"
FAILED == "failed"
SUCCEEDED == "succeeded"
SCHEDULED == "scheduled"
EmptyStr == <<>>          \* ''  in a text column that is a sequence of characters
NoType == ""              \* ''  in node_type

\* timezone.now() at the time of a request, and an earlier point in time.
Now == "t1"
Earlier == "t0"

\* The columns of a Task row (assignees left out: no modelled code writes it).
Fields ==
  {"process", "node_name", "node_type", "status", "completed",
   "completed_by_user", "created", "modified", "exception", "stacktrace"}

\* --------------------------------------------------- the process class
\* A concrete Process subclass:
\*   start   = a create view  (human, URL without pk)
\*   approve = an update view (human)
\*   work, done = plain functions (machine)
\* with a duplicated edge (approve starts work twice) and a node without
\* outgoing edge.
edges ==
  << <<"start", "approve">>, <<"approve", "work">>, <<"approve", "work">>,
     <<"work", "done">> >>

\* isinstance(node, views.TaskViewMixin)
IsTaskView(n) == n \in {"start", "approve"}

\* isinstance(node, BaseCreateView)
IsCreateView(n) == n = "start"

\* BaseProcess.__new__: node.node_type
NodeType(n) == IF IsTaskView(n) THEN HUMAN ELSE MACHINE

\* callable(node): a function is, a view instance is not.
Callable(n) == ~IsTaskView(n)

\* Process.get_nodes: the names of the nodes on some edge.
GetNodes == {edges[i][1] : i \in DOMAIN edges} \cup {edges[i][2] : i \in DOMAIN edges}

RECURSIVE NextNodesFrom(_, _)
NextNodesFrom(es, name) ==
  IF es = <<>> THEN <<>>
  ELSE (IF Head(es)[1] = name THEN <<Head(es)[2]>> ELSE <<>>)
       \o NextNodesFrom(Tail(es), name)

\* A get_next_nodes that returns at the first matching edge instead of yielding.
GetNextNodesFirst(name) ==
  LET all == NextNodesFrom(edges, name)
  IN IF all = <<>> THEN <<>> ELSE <<all[1]>>

\* Process.get_next_nodes(prev_node): the end of every edge that starts at
\* prev_node, in edge order.
GetNextNodes(name) == NextNodesFrom(edges, name)

\* ------------------------------------------------------------------ text
Whitespace == {" ", "\n", "\t"}

RECURSIVE LStrip(_)
LStrip(s) ==
  IF s = <<>> THEN <<>>
  ELSE IF Head(s) \in Whitespace THEN LStrip(Tail(s)) ELSE s

RECURSIVE RStrip(_)
RStrip(s) ==
  IF s = <<>> THEN <<>>
  ELSE IF s[Len(s)] \in Whitespace THEN RStrip(SubSeq(s, 1, Len(s) - 1)) ELSE s

\* str.strip()
Strip(s) == RStrip(LStrip(s))

RECURSIVE Join(_)
\* "".join(lines)
Join(lines) == IF lines = <<>> THEN <<>> ELSE Head(lines) \o Join(Tail(lines))

\* traceback.format_exception(*sys.exc_info()): the lines it can return.
\* With no exception being handled it returns the one line "NoneType: None\n".
TbNone == << <<"N", "o", "n", "e", "\n">> >>
TbError ==
  << <<"T", "b", ":", "\n">>,
     <<" ", " ", "f", "\n", " ", " ", "x", "\n">>,
     <<"E", ":", " ", "m", "\n">> >>
Tracebacks == {TbNone, TbError}


\* ----------------------------------------------------------------- state
VARIABLES
  proc,     \* committed Process rows, indexed by primary key
  task,     \* committed Task rows, indexed by primary key
  links,    \* committed parent_task_set rows: <<child pk, parent pk>>
  queue,    \* messages dispatched to the task queue: <<task pk, process id>>
  txOpen,   \* a transaction.atomic block has run its body and not yet ended
  wproc,    \* the open transaction's view of the Process rows
  wtask,    \* the open transaction's view of the Task rows
  wlinks,   \* the open transaction's view of parent_task_set
  hooks,    \* the open transaction's transaction.on_commit callbacks
  last,     \* the latest request: what was asked, the response, what it returned
  inflight  \* the requests that run concurrently (used by SpecRace only)

vars == <<proc, task, links, queue, txOpen, wproc, wtask, wlinks, hooks, last, inflight>>

\* ------------------------------------------------------------- Task rows
\* Task(**kwargs): an unsaved instance with the field defaults.
NewTask(process, node_name, node_type) ==
  [pk |-> NoPk, process |-> process, node_name |-> node_name,
   node_type |-> node_type, status |-> SCHEDULED, completed |-> Null,
   completed_by_user |-> Null, created |-> Null, modified |-> Null,
   exception |-> EmptyStr, stacktrace |-> EmptyStr]

\* The instance of a stored row (Task.objects.get).
Load(tbl, pk) == [f \in Fields \cup {"pk"} |-> IF f = "pk" THEN pk ELSE tbl[pk][f]]

\* models.Model.save(): INSERT of a new row (auto pk, auto_now_add, auto_now),
\* or UPDATE of the columns in update_fields (all of them when it is absent).
ModelSave(tbl, obj, uf) ==
  IF obj.pk = NoPk
  THEN IF uf # Absent
       THEN [tbl |-> tbl, obj |-> obj, err |-> "ValueError"]
       ELSE LET o == [obj EXCEPT !.pk = Len(tbl) + 1, !.created = Now, !.modified = Now]
            IN [tbl |-> Append(tbl, [f \in Fields |-> o[f]]), obj |-> o, err |-> "none"]
  ELSE LET cols == IF uf = Absent THEN Fields ELSE uf
           o == IF "modified" \in cols THEN [obj EXCEPT !.modified = Now] ELSE obj
           row == [f \in Fields |-> IF f \in cols THEN o[f] ELSE tbl[obj.pk][f]]
       IN [tbl |-> [tbl EXCEPT ![obj.pk] = row], obj |-> o, err |-> "none"]

\* A Task.save that forgets the update_fields requirement (as Process.save does).
SaveUnchecked(tbl, obj, uf) ==
  ModelSave(tbl, obj, IF obj.pk # NoPk /\ uf # Absent THEN uf \cup {"modified"} ELSE uf)

\* Task.save(**kwargs)
Save(tbl, obj, uf) ==
  IF obj.pk # NoPk
  THEN IF uf = Absent
       THEN [tbl |-> tbl, obj |-> obj, err |-> "ValueError"]
       ELSE ModelSave(tbl, obj, uf \cup {"modified"})
  ELSE ModelSave(tbl, obj, uf)

\* ------------------------------------------------- transactions and hooks
\* A connection's state during a handler: the rows it sees, the hooks it has
\* registered, the queue, and whether it is inside an atomic block.
Conn(p, t, l, h, q, a) ==
  [proc |-> p, task |-> t, links |-> l, hooks |-> h, queue |-> q, atomic |-> a]

RECURSIVE OnCommit(_, _)
RECURSIVE RunHook(_, _)
RECURSIVE Enqueue(_, _)

\* celery.task_wrapper.apply_async(args=(self.pk, self._process_id), ...)
ApplyAsync(c, obj) == [c EXCEPT !.queue = Append(@, <<obj.pk, obj.process>>)]

\* An on_commit that does not wait for the commit.
OnCommitNow(c, hook) == RunHook(c, hook)

\* transaction.on_commit(func): func runs after the outermost atomic block
\* commits; outside any atomic block it runs at once.
OnCommit(c, hook) ==
  IF c.atomic THEN [c EXCEPT !.hooks = Append(@, hook)] ELSE RunHook(c, hook)

\* The two callbacks the code registers: task.enqueue (start_next_tasks) and
\* the lambda that calls apply_async (enqueue).
RunHook(c, hook) ==
  IF hook.kind = "dispatch" THEN ApplyAsync(c, hook.obj) ELSE Enqueue(c, hook.obj)

\* An enqueue that leaves the error columns out of update_fields.
EnqueueKeepsError(c, obj) ==
  LET o == [obj EXCEPT !.status = SCHEDULED, !.completed = Null,
                       !.exception = EmptyStr, !.stacktrace = EmptyStr]
      s == Save(c.task, o, {"status", "completed"})
  IN OnCommit([c EXCEPT !.task = s.tbl], [kind |-> "dispatch", obj |-> s.obj])

\* Task.enqueue()
Enqueue(c, obj) ==
  LET o == [obj EXCEPT !.status = SCHEDULED, !.completed = Null,
                       !.exception = EmptyStr, !.stacktrace = EmptyStr]
      s == Save(c.task, o, {"status", "completed", "exception", "stacktrace"})
  IN OnCommit([c EXCEPT !.task = s.tbl], [kind |-> "dispatch", obj |-> s.obj])

RECURSIVE RunHooks(_, _)
\* The connection runs the registered callbacks in order once it has committed.
RunHooks(c, hs) == IF hs = <<>> THEN c ELSE RunHooks(RunHook(c, Head(hs)), Tail(hs))

\* Leaving the outermost atomic block without an exception.
CommitConn(c) == RunHooks([c EXCEPT !.hooks = <<>>, !.atomic = FALSE], c.hooks)

\* ------------------------------------------------------- Task operations
\* A finish that leaves 'status' out of update_fields.
FinishStatusNotSaved(c, obj, user) ==
  LET o == [obj EXCEPT !.completed = Now, !.status = SUCCEEDED,
                       !.completed_by_user = user]
      s == IF obj.pk # NoPk
           THEN Save(c.task, o, {"completed", "completed_by_user"})
           ELSE Save(c.task, o, Absent)
  IN [c |-> [c EXCEPT !.task = s.tbl], obj |-> s.obj]

\* A finish that leaves 'completed' out of update_fields.
FinishCompletedNotSaved(c, obj, user) ==
  LET o == [obj EXCEPT !.completed = Now, !.status = SUCCEEDED,
                       !.completed_by_user = user]
      s == IF obj.pk # NoPk
           THEN Save(c.task, o, {"status", "completed_by_user"})
           ELSE Save(c.task, o, Absent)
  IN [c |-> [c EXCEPT !.task = s.tbl], obj |-> s.obj]

\* Task.finish(user)
Finish(c, obj, user) ==
  LET o == [obj EXCEPT !.completed = Now, !.status = SUCCEEDED,
                       !.completed_by_user = user]
      s == IF obj.pk # NoPk
           THEN Save(c.task, o, {"status", "completed", "completed_by_user"})
           ELSE Save(c.task, o, Absent)
  IN [c |-> [c EXCEPT !.task = s.tbl], obj |-> s.obj]

\* A fail that stores the last traceback line as it is.
FailUnstripped(c, obj, tb) ==
  LET o == [obj EXCEPT !.completed = Now, !.status = FAILED,
                       !.exception = tb[Len(tb)], !.stacktrace = Join(tb)]
      s == Save(c.task, o, {"status", "exception", "stacktrace"})
  IN [c |-> [c EXCEPT !.task = s.tbl], obj |-> s.obj]

\* A fail that lists 'completed' in update_fields.
FailStoresCompleted(c, obj, tb) ==
  LET o == [obj EXCEPT !.completed = Now, !.status = FAILED,
                       !.exception = Strip(tb[Len(tb)]), !.stacktrace = Join(tb)]
      s == Save(c.task, o, {"status", "completed", "exception", "stacktrace"})
  IN [c |-> [c EXCEPT !.task = s.tbl], obj |-> s.obj]

\* Task.fail(), tb being traceback.format_exception(*sys.exc_info())
Fail(c, obj, tb) ==
  LET o == [obj EXCEPT !.completed = Now, !.status = FAILED,
                       !.exception = Strip(tb[Len(tb)]), !.stacktrace = Join(tb)]
      s == Save(c.task, o, {"status", "exception", "stacktrace"})
  IN [c |-> [c EXCEPT !.task = s.tbl], obj |-> s.obj]

\* process.task_set.create(node_name=..., node_type=...)
TaskSetCreate(c, process, node_name, node_type) ==
  LET s == Save(c.task, NewTask(process, node_name, node_type), Absent)
  IN [c |-> [c EXCEPT !.task = s.tbl], obj |-> s.obj]

RECURSIVE StartLoopEnqueueAll(_, _, _, _)
\* A loop that enqueues every successor, callable or not.
StartLoopEnqueueAll(c, self, nodes, tasks) ==
  IF nodes = <<>> THEN [c |-> c, tasks |-> tasks]
  ELSE LET node == Head(nodes)
           made == TaskSetCreate(c, self.process, node, NodeType(node))
           c2 == [made.c EXCEPT !.links = @ \cup {<<made.obj.pk, self.pk>>}]
           c3 == OnCommit(c2, [kind |-> "enqueue", obj |-> made.obj])
       IN StartLoopEnqueueAll(c3, self, Tail(nodes), Append(tasks, made.obj.pk))

RECURSIVE StartLoop(_, _, _, _)
\* The loop of start_next_tasks over next_nodes; tasks is the list it returns.
\* No node of the process class has a create_task method, so the
\* AttributeError branch is the one taken.
StartLoop(c, self, nodes, tasks) ==
  IF nodes = <<>> THEN [c |-> c, tasks |-> tasks]
  ELSE LET node == Head(nodes)
           made == TaskSetCreate(c, self.process, node, NodeType(node))
           c2 == [made.c EXCEPT !.links = @ \cup {<<made.obj.pk, self.pk>>}]
           c3 == IF Callable(node)
                 THEN OnCommit(c2, [kind |-> "enqueue", obj |-> made.obj])
                 ELSE c2
       IN StartLoop(c3, self, Tail(nodes), Append(tasks, made.obj.pk))

\* Task.start_next_tasks(next_nodes), under its own transaction.atomic():
\* nested in the caller's block, or a block of its own that commits on return.
StartNextTasks(c, self, next_nodes) ==
  LET nodes == IF next_nodes = NoNodes THEN GetNextNodes(self.node_name) ELSE next_nodes
      r == StartLoop([c EXCEPT !.atomic = TRUE], self, nodes, <<>>)
  IN IF c.atomic THEN r ELSE [c |-> CommitConn(r.c), tasks |-> r.tasks]

\* An atomic block that keeps what its body did when an exception leaves it.
AtomicCommitsAnyway(c0, c) == IF c0.atomic THEN c ELSE CommitConn(c)

\* transaction.atomic left by an exception: the rows and the registered
\* callbacks are what they were at the entry of the block (c0); a message
\* that was sent inside the block stays sent.
AtomicRollback(c0, c) == [c0 EXCEPT !.queue = c.queue]

\* Task.start_next_tasks(next_nodes) when the k+1-th pass of its loop raises:
\* its own atomic block is left by the exception, which goes on to the caller.
\* tasks is what the loop had created.
StartNextTasksRaising(c, self, next_nodes, k) ==
  LET nodes == IF next_nodes = NoNodes THEN GetNextNodes(self.node_name) ELSE next_nodes
      r == StartLoop([c EXCEPT !.atomic = TRUE], self, SubSeq(nodes, 1, k), <<>>)
  IN [c |-> AtomicRollback(c, r.c), tasks |-> r.tasks]


\* --------------------------------------------------------- Process rows
\* The values a valid process form can carry, and a form that does not validate.
FormData == {"a", "b"}
Invalid == "invalid"
Forms == FormData \cup {Invalid}

\* Process.save(**kwargs): update_fields is optional, also for a stored row.
ProcessSave(tbl, obj, uf) ==
  IF obj.pk = NoPk
  THEN LET o == [obj EXCEPT !.pk = Len(tbl) + 1, !.modified = Now]
       IN [tbl |-> Append(tbl, [data |-> o.data, modified |-> o.modified]), obj |-> o,
           err |-> "none"]
  ELSE LET cols == IF uf = Absent THEN {"data", "modified"} ELSE uf \cup {"modified"}
           o == [obj EXCEPT !.modified = Now]
           row == [f \in {"data", "modified"} |->
                     IF f \in cols THEN o[f] ELSE tbl[obj.pk][f]]
       IN [tbl |-> [tbl EXCEPT ![obj.pk] = row], obj |-> o, err |-> "none"]

\* ModelForm.save() of a valid form: the instance with the form's data, saved
\* without update_fields.
FormSave(c, pk, form) ==
  LET s == ProcessSave(c.proc, [pk |-> pk, data |-> form, modified |-> Null], Absent)
  IN [c |-> [c EXCEPT !.proc = s.tbl], obj |-> s.obj]

\* -------------------------------------------------------------- requests
\* What the latest request was and what came of it.
NoRequest ==
  [op |-> "none", phase |-> "none", code |-> "none", pk |-> NoPk, proc |-> NoPk,
   node |-> Null, valid |-> FALSE, self |-> NoPk, defaulted |-> FALSE, tasks |-> <<>>,
   active |-> {}, chosen |-> <<>>, perm |-> FALSE, ntask |-> 0, tb |-> <<>>,
   obj |-> NewTask(NoPk, "", NoType), uf |-> Absent]

\* The handler's connection once it has entered its atomic block.
Begin == Conn(proc, task, links, <<>>, queue, TRUE)

\* The handler body has run: its writes and hooks wait for the commit.
Leave(c, req) ==
  /\ wproc' = c.proc
  /\ wtask' = c.task
  /\ wlinks' = c.links
  /\ hooks' = c.hooks
  /\ queue' = c.queue
  /\ txOpen' = TRUE
  /\ last' = [req EXCEPT !.phase = "open", !.ntask = Len(task)]
  /\ UNCHANGED <<proc, task, links, inflight>>

\* The request ended without entering form_valid or by an exception: nothing
\* is written.
Refuse(req) ==
  /\ last' = [req EXCEPT !.ntask = Len(task)]
  /\ UNCHANGED <<proc, task, links, queue, txOpen, wproc, wtask, wlinks, hooks, inflight>>

\* The connection of a request before it enters an atomic block.
Outside == Conn(proc, task, links, <<>>, queue, FALSE)

\* The request ended by an exception that left its atomic block: the
\* connection is what that left of it.
Unwound(c, req) ==
  /\ proc' = c.proc
  /\ task' = c.task
  /\ links' = c.links
  /\ queue' = c.queue
  /\ wproc' = c.proc
  /\ wtask' = c.task
  /\ wlinks' = c.links
  /\ hooks' = c.hooks
  /\ txOpen' = c.atomic
  /\ last' = [req EXCEPT !.ntask = Len(task)]
  /\ UNCHANGED inflight

\* get_object_or_404(models.Task, pk=pk, node_name=node_name, completed=None)
TaskFound(tbl, pk, node_name) ==
  /\ pk \in DOMAIN tbl
  /\ tbl[pk].node_name = node_name
  /\ tbl[pk].completed = Null

\* A get_task that leaves out the completed=None filter.
GetTaskAnyState(tbl, pk, node_name) ==
  IF pk \in DOMAIN tbl /\ tbl[pk].node_name = node_name THEN <<Load(tbl, pk)>> ELSE <<>>

\* TaskViewMixin.get_task() of a view whose URL carries a pk: the task, or
\* nothing (Http404).
GetTask(tbl, pk, node_name) ==
  IF TaskFound(tbl, pk, node_name) THEN <<Load(tbl, pk)>> ELSE <<>>

\* A post that saves the task as it is instead of finishing it.
PostTailNoFinish(c, t0, process) ==
  LET t1 == [t0 EXCEPT !.process = process]
      s == Save(c.task, t1, IF t1.pk = NoPk THEN Absent ELSE {"status"})
  IN StartNextTasks([c EXCEPT !.task = s.tbl], s.obj, NoNodes)

\* The part of TaskViewMixin.post after super().post(): it runs whether the
\* form was valid or not.
PostTail(c, t0, process) ==
  LET t1 == [t0 EXCEPT !.process = process]
      f == Finish(c, t1, Null)
  IN StartNextTasks(f.c, f.obj, NoNodes)

\* POST to the create view of the start node (no pk in the URL).
\* Valid form: form_valid saves the new process; get_task builds an unsaved
\* Task(node_name=...).  Invalid form: self.object is None and task.finish()
\* fails on the insert, so the block rolls back (a server error).
StartPost(form) ==
  /\ ~txOpen
  /\ Len(task) + 1 + Len(GetNextNodes("start")) <= MaxTasks
  /\ LET req == [NoRequest EXCEPT !.op = "start", !.node = "start", !.valid = form # Invalid]
     IN IF form = Invalid
        THEN Refuse([req EXCEPT !.code = "500", !.phase = "rolledback"])
        ELSE LET s == FormSave(Begin, NoPk, form)
                 r == PostTail(s.c, NewTask(NoPk, "start", NoType), s.obj.pk)
             IN Leave(r.c, [req EXCEPT !.code = "302", !.proc = s.obj.pk,
                                       !.self = Len(task) + 1, !.defaulted = TRUE,
                                       !.tasks = r.tasks])

\* POST to the update view of human node n with a task pk in the URL.
\* super().post(): get_object() is get_task().process (404 when there is no
\* such active task), then the form is saved if it is valid.
TaskPost(n, pk, form) ==
  /\ ~txOpen
  /\ Len(task) + Len(GetNextNodes(n)) <= MaxTasks
  /\ LET req == [NoRequest EXCEPT !.op = "post", !.node = n, !.pk = pk, !.valid = form # Invalid]
         found == GetTask(task, pk, n)
     IN IF found = <<>>
        THEN Refuse([req EXCEPT !.code = "404", !.phase = "rolledback"])
        ELSE LET c1 == IF form = Invalid THEN Begin
                       ELSE FormSave(Begin, found[1].process, form).c
                 r == PostTail(c1, GetTask(c1.task, pk, n)[1], found[1].process)
             IN Leave(r.c, [req EXCEPT !.code = IF form = Invalid THEN "200" ELSE "302",
                                       !.proc = found[1].process, !.self = pk,
                                       !.defaulted = TRUE, !.tasks = r.tasks])

\* The same POST when start_next_tasks raises after it has created k of the
\* successors (the database refuses an insert, a node's create_task fails):
\* the exception leaves post's atomic block.
TaskPostRaises(n, pk, form, k) ==
  /\ ~txOpen
  /\ Len(task) + Len(GetNextNodes(n)) <= MaxTasks
  /\ k < Len(GetNextNodes(n))
  /\ GetTask(task, pk, n) # <<>>
  /\ LET found == GetTask(task, pk, n)
         c1 == IF form = Invalid THEN Begin
               ELSE FormSave(Begin, found[1].process, form).c
         t1 == [GetTask(c1.task, pk, n)[1] EXCEPT !.process = found[1].process]
         f == Finish(c1, t1, Null)
         r == StartNextTasksRaising(f.c, f.obj, NoNodes, k)
     IN Unwound(AtomicRollback(Outside, r.c),
                [NoRequest EXCEPT !.op = "post", !.node = n, !.pk = pk,
                                  !.valid = form # Invalid, !.code = "500",
                                  !.phase = "rolledback", !.proc = found[1].process,
                                  !.self = pk, !.tasks = r.tasks])

\* ---------------------------------------------------------------- override
\* What an override form can submit as next_tasks: node names, among them
\* one that is no node of the process.
SubmitNames == {"approve", "work", "bogus"}

Submissions == UNION {[1..n -> SubmitNames] : n \in 0..MaxChoices}

\* The override requests tried: every submission by a permitted user with a
\* valid process form, and one well-formed submission for the other users
\* and forms.
OverrideInputs ==
  {[perm |-> TRUE, form |-> f, chosen |-> ch] : f \in FormData, ch \in Submissions}
    \cup {[perm |-> TRUE, form |-> Invalid, chosen |-> <<"work">>]}
    \cup {[perm |-> FALSE, form |-> f, chosen |-> <<"work">>] : f \in Forms}

\* ManualOverrideView.get_task_choices: the choices of the next_tasks field.
TaskChoices == GetNodes

\* A next_tasks field that does not check the submitted names against its
\* choices.
OverrideFormValidAnyName(form, chosen) ==
  /\ form # Invalid
  /\ chosen # <<>>

\* OverrideForm.is_valid(): the process fields validate and next_tasks, a
\* required MultipleChoiceField, names at least one choice and only choices.
OverrideFormValid(form, chosen) ==
  /\ form # Invalid
  /\ chosen # <<>>
  /\ \A i \in DOMAIN chosen : chosen[i] \in TaskChoices

\* self.object.task_set.filter(completed=None)
ActiveTasks(tbl, p) == {pk \in DOMAIN tbl : tbl[pk].process = p /\ tbl[pk].completed = Null}

RECURSIVE FinishAll(_, _)
\* for task in active_tasks: task.finish()
FinishAll(c, pks) ==
  IF pks = {} THEN c
  ELSE LET pk == CHOOSE x \in pks : \A y \in pks : x <= y
       IN FinishAll(Finish(c, Load(c.task, pk), Null).c, pks \ {pk})

\* A form_valid that links the override task to no parent.
OverrideBodyNoParents(c, p, form, chosen) ==
  LET s == FormSave(c, p, form)
      active == ActiveTasks(s.c.task, p)
      c1 == FinishAll(s.c, active)
      ov == TaskSetCreate(c1, p, "manual_override", NoType)
      f == Finish(ov.c, ov.obj, Null)
  IN StartNextTasks(f.c, f.obj, chosen)

\* A form_valid that creates the override task before it collects the active
\* tasks.
OverrideBodyCreateFirst(c, p, form, chosen) ==
  LET s == FormSave(c, p, form)
      ov == TaskSetCreate(s.c, p, "manual_override", NoType)
      active == ActiveTasks(ov.c.task, p)
      c1 == FinishAll(ov.c, active)
      c2 == [c1 EXCEPT !.links =
               {l \in @ : l[1] # ov.obj.pk} \cup {<<ov.obj.pk, a>> : a \in active}]
      f == Finish(c2, Load(c2.task, ov.obj.pk), Null)
  IN StartNextTasks(f.c, f.obj, chosen)

\* ManualOverrideView.form_valid(form)
OverrideBody(c, p, form, chosen) ==
  LET s == FormSave(c, p, form)
      active == ActiveTasks(s.c.task, p)
      c1 == FinishAll(s.c, active)
      ov == TaskSetCreate(c1, p, "manual_override", NoType)
      c2 == [ov.c EXCEPT !.links =
               {l \in @ : l[1] # ov.obj.pk} \cup {<<ov.obj.pk, a>> : a \in active}]
      f == Finish(c2, ov.obj, Null)
  IN StartNextTasks(f.c, f.obj, chosen)

\* A permission check that lets every user through.
PermissionAlways(perm) == TRUE

\* PermissionRequiredMixin with permission_required = 'override': dispatch
\* goes on only for a user who has the permission.
HasPermission(perm) == perm

\* POST to <pk>/override by a user who has or lacks the permission.
Override(p, perm, form, chosen) ==
  /\ ~txOpen
  /\ Len(task) + 1 + Len(chosen) <= MaxTasks
  /\ LET req == [NoRequest EXCEPT !.op = "override", !.node = "manual_override",
                                  !.proc = p, !.valid = OverrideFormValid(form, chosen),
                                  !.chosen = chosen, !.perm = perm]
         no == [req EXCEPT !.chosen = <<>>]
     IN IF ~HasPermission(perm)
        THEN Refuse([no EXCEPT !.code = "403"])
        ELSE IF p \notin DOMAIN proc
        THEN Refuse([no EXCEPT !.code = "404"])
        ELSE IF ~OverrideFormValid(form, chosen)
        THEN Refuse([req EXCEPT !.code = "200"])
        ELSE LET r == OverrideBody(Begin, p, form, chosen)
             IN Leave(r.c, [req EXCEPT !.code = "302", !.self = Len(task) + 1,
                                       !.active = {a \in DOMAIN task :
                                                     /\ task[a].process = p
                                                     /\ task[a].completed = Null},
                                       !.tasks = r.tasks])

\* The same override by a permitted user with a valid form when
\* start_next_tasks raises after it has created k of the chosen tasks: the
\* exception leaves form_valid's atomic block.
OverrideRaises(p, form, chosen, k) ==
  /\ ~txOpen
  /\ Len(task) + 1 + Len(chosen) <= MaxTasks
  /\ p \in DOMAIN proc
  /\ OverrideFormValid(form, chosen)
  /\ k < Len(chosen)
  /\ LET s == FormSave(Begin, p, form)
         active == ActiveTasks(s.c.task, p)
         c1 == FinishAll(s.c, active)
         ov == TaskSetCreate(c1, p, "manual_override", NoType)
         c2 == [ov.c EXCEPT !.links =
                  {l \in @ : l[1] # ov.obj.pk} \cup {<<ov.obj.pk, a>> : a \in active}]
         f == Finish(c2, ov.obj, Null)
         r == StartNextTasksRaising(f.c, f.obj, chosen, k)
     IN Unwound(AtomicRollback(Outside, r.c),
                [NoRequest EXCEPT !.op = "override", !.node = "manual_override",
                                  !.proc = p, !.valid = TRUE, !.perm = TRUE,
                                  !.code = "500", !.phase = "rolledback",
                                  !.self = f.obj.pk, !.active = active,
                                  !.tasks = r.tasks])

\* ------------------------------------------------------ worker and rerun
Remove(q, i) == SubSeq(q, 1, i - 1) \o SubSeq(q, i + 1, Len(q))

\* A worker takes message i; the task it names is no longer active.
WorkerDrop(i) ==
  /\ ~txOpen
  /\ i \in DOMAIN queue
  /\ ~(queue[i][1] \in DOMAIN task /\ task[queue[i][1]].completed = Null)
  /\ queue' = Remove(queue, i)
  /\ last' = [NoRequest EXCEPT !.op = "worker", !.code = "gone", !.pk = queue[i][1],
                               !.ntask = Len(task)]
  /\ UNCHANGED <<proc, task, links, txOpen, wproc, wtask, wlinks, hooks, inflight>>

\* A worker takes message i and runs the node, which returns: the task is
\* finished and its successors are started.
WorkerSucceed(i) ==
  /\ ~txOpen
  /\ i \in DOMAIN queue
  /\ LET pk == queue[i][1] IN
       /\ pk \in DOMAIN task
       /\ task[pk].completed = Null
       /\ Len(task) + Len(GetNextNodes(task[pk].node_name)) <= MaxTasks
       /\ LET c0 == [Begin EXCEPT !.queue = Remove(queue, i)]
              f == Finish(c0, Load(task, pk), Null)
              r == StartNextTasks(f.c, f.obj, NoNodes)
          IN Leave(r.c, [NoRequest EXCEPT !.op = "worker", !.code = "done", !.pk = pk,
                                          !.node = task[pk].node_name,
                                          !.proc = task[pk].process, !.self = pk,
                                          !.defaulted = TRUE, !.tasks = r.tasks])

\* A worker takes message i and runs the node, which raises: the task fails
\* with the traceback tb.
WorkerFail(i, tb) ==
  /\ ~txOpen
  /\ i \in DOMAIN queue
  /\ LET pk == queue[i][1] IN
       /\ pk \in DOMAIN task
       /\ task[pk].completed = Null
       /\ LET c0 == [Begin EXCEPT !.queue = Remove(queue, i)]
              f == Fail(c0, Load(task, pk), tb)
          IN Leave(f.c, [NoRequest EXCEPT !.op = "worker", !.code = "failed", !.pk = pk,
                                          !.node = task[pk].node_name,
                                          !.proc = task[pk].process, !.tb = tb,
                                          !.obj = f.obj])

\* A user with the 'rerun' permission reruns a failed task: task.enqueue().
Rerun(pk) ==
  /\ ~txOpen
  /\ pk \in DOMAIN task
  /\ task[pk].status = FAILED
  /\ LET c == Enqueue(Begin, Load(task, pk))
     IN Leave(c, [NoRequest EXCEPT !.op = "rerun", !.code = "302", !.pk = pk,
                                   !.node = task[pk].node_name,
                                   !.proc = task[pk].process])

\* ---------------------------------------------------- end of transaction
\* The outermost atomic block is left without an exception: the writes are
\* committed and the on_commit callbacks run.
Commit ==
  /\ txOpen
  /\ LET c == CommitConn(Conn(wproc, wtask, wlinks, hooks, queue, TRUE))
     IN /\ proc' = c.proc
        /\ task' = c.task
        /\ links' = c.links
        /\ queue' = c.queue
        /\ wproc' = c.proc
        /\ wtask' = c.task
        /\ wlinks' = c.links
  /\ hooks' = <<>>
  /\ txOpen' = FALSE
  /\ last' = [last EXCEPT !.phase = "committed"]
  /\ UNCHANGED inflight

\* The block is left by an exception (the handler or the database fails
\* before the commit): writes and callbacks are discarded.
Rollback ==
  /\ txOpen
  /\ wproc' = proc
  /\ wtask' = task
  /\ wlinks' = links
  /\ hooks' = <<>>
  /\ txOpen' = FALSE
  /\ last' = [last EXCEPT !.phase = "rolledback"]
  /\ UNCHANGED <<proc, task, links, queue, inflight>>

\* ------------------------------------------------------ the specification
Init ==
  /\ proc = <<>>
  /\ task = <<>>
  /\ links = {}
  /\ queue = <<>>
  /\ txOpen = FALSE
  /\ wproc = <<>>
  /\ wtask = <<>>
  /\ wlinks = {}
  /\ hooks = <<>>
  /\ last = NoRequest
  /\ inflight = <<>>

Next ==
  \/ \E form \in Forms : StartPost(form)
  \/ \E pk \in 1..(Len(task) + 1), form \in Forms : TaskPost("approve", pk, form)
  \/ \E pk \in DOMAIN task, form \in Forms, k \in 0..Len(GetNextNodes("approve")) :
       TaskPostRaises("approve", pk, form, k)
  \/ \E p \in 1..(Len(proc) + 1), in \in OverrideInputs :
       Override(p, in.perm, in.form, in.chosen)
  \/ \E p \in DOMAIN proc, in \in OverrideInputs, k \in 0..(MaxChoices - 1) :
       in.perm /\ OverrideRaises(p, in.form, in.chosen, k)
  \/ \E i \in DOMAIN queue : WorkerDrop(i)
  \/ \E i \in DOMAIN queue : WorkerSucceed(i)
  \/ \E i \in DOMAIN queue, tb \in Tracebacks : WorkerFail(i, tb)
  \/ \E pk \in DOMAIN task : Rerun(pk)
  \/ Commit
  \/ Rollback

Spec == Init /\ [][Next]_vars


\* ------------------------------------------------------- claim vocabulary
Range(f) == {f[i] : i \in DOMAIN f}

\* The parents and the children of a task in a parent_task_set relation.
ParentsOf(l, pk) == {x[2] : x \in {y \in l : y[1] = pk}}
ChildrenOf(l, pk) == {x[1] : x \in {y \in l : y[2] = pk}}

\* How often x occurs in the sequence q.
Count(q, x) == Cardinality({i \in DOMAIN q : q[i] = x})

\* The latest request ran its body and was not rolled back.
Ran == last.phase \in {"open", "committed"}

\* The rows the latest request inserted.
NewPks == (last.ntask + 1)..Len(wtask)

\* The edges that leave node n, in the order of the edges tuple.
EdgesFrom(n) == SelectSeq(edges, LAMBDA e : e[1] = n)

\* The callbacks registered for task pk that will call task.enqueue.
EnqueueHooks(pk) == {i \in DOMAIN hooks : hooks[i].kind = "enqueue" /\ hooks[i].obj.pk = pk}

\* ----------------------------------------------------------------- C1
\* C1: start_next_tasks without next_nodes, called on a task of node N,
\* returns one new task per edge that leaves N, in edge order and a duplicated
\* edge counted twice, each carrying the edge's end node name and node type
\* and having the calling task as its only parent; the request inserts no
\* other successor row, and none at all for a node without outgoing edge.
C1_SuccessorsFollowEdges ==
  (last.defaulted /\ Ran) =>
    LET out == EdgesFrom(wtask[last.self].node_name)
    IN /\ Len(last.tasks) = Len(out)
       /\ \A i \in DOMAIN out :
            /\ last.tasks[i] \in NewPks
            /\ wtask[last.tasks[i]].node_name = out[i][2]
            /\ wtask[last.tasks[i]].node_type = NodeType(out[i][2])
            /\ wtask[last.tasks[i]].process = wtask[last.self].process
            /\ ParentsOf(wlinks, last.tasks[i]) = {last.self}
       /\ \A i, j \in DOMAIN out : i # j => last.tasks[i] # last.tasks[j]
       /\ NewPks \ {last.self} = Range(last.tasks)
       /\ ChildrenOf(wlinks, last.self) = Range(last.tasks)

\* A POST for an approve task has committed: the duplicated edge out of
\* approve has produced two work tasks.
C1_Witness ==
  /\ last.op = "post"
  /\ last.defaulted
  /\ last.phase = "committed"
  /\ last.node = "approve"
  /\ Len(last.tasks) = 2
  /\ \A i \in 1..2 : task[last.tasks[i]].node_name = "work"

\* ----------------------------------------------------------------- C2
\* Every successor start_next_tasks created has exactly one task.enqueue
\* callback if its node is callable and none otherwise, and once the request
\* has committed a machine successor has exactly one message and a human
\* successor none.
C2_DispatchIffCallable ==
  (Ran /\ last.tasks # <<>>) =>
    \A i \in DOMAIN last.tasks :
      LET pk == last.tasks[i]
          n == wtask[pk].node_name
          msg == <<pk, wtask[pk].process>>
      IN /\ last.phase = "open" =>
              /\ Cardinality(EnqueueHooks(pk)) = (IF Callable(n) THEN 1 ELSE 0)
              /\ Count(queue, msg) = 0
         /\ last.phase = "committed" =>
              Count(queue, msg) = (IF Callable(n) THEN 1 ELSE 0)

\* No message in the queue names a task of a human node.
C2_NoHumanMessage ==
  \A i \in DOMAIN queue :
    queue[i][1] \in DOMAIN task => task[queue[i][1]].node_type # HUMAN

\* A stored human task that is scheduled with completed = null.
HumanWaiting(pk) ==
  /\ pk \in DOMAIN task
  /\ task[pk].node_type = HUMAN
  /\ task[pk].status = SCHEDULED
  /\ task[pk].completed = Null

\* The step commits a POST against the view of task pk.
PostCommits(pk) ==
  /\ txOpen /\ ~txOpen'
  /\ last'.phase = "committed"
  /\ last'.op = "post"
  /\ last'.pk = pk
  /\ last'.node = task[pk].node_name

\* The step commits an override of the process of task pk.
OverrideCommits(pk) ==
  /\ txOpen /\ ~txOpen'
  /\ last'.phase = "committed"
  /\ last'.op = "override"
  /\ last'.proc = task[pk].process

\* The stored row of task pk is as it was, or it has been finished.
StaysOrFinished(pk, finisher) ==
  \/ task'[pk] = task[pk]
  \/ /\ finisher
     /\ task'[pk].status = SUCCEEDED
     /\ task'[pk].completed # Null

\* C2 as stated: a waiting human task changes only by a POST against its view.
C2_HumanWaitsForPostOnly ==
  [][\A pk \in DOMAIN task : HumanWaiting(pk) => StaysOrFinished(pk, PostCommits(pk))]_vars

\* C2 (amended): dispatch if and only if callable, no message for a human
\* task, and a waiting human task stays scheduled with completed = null until
\* a POST against its view or an override of its process finishes it.
C2_HumanWaitsForPostOrOverride ==
  /\ [](C2_DispatchIffCallable /\ C2_NoHumanMessage)
  /\ [][\A pk \in DOMAIN task :
          HumanWaiting(pk) => StaysOrFinished(pk, PostCommits(pk) \/ OverrideCommits(pk))]_vars

\* A start request has committed a human successor: it has no message and
\* waits, while a machine task of an earlier request has its message.
C2_Witness ==
  /\ last.op = "start"
  /\ last.phase = "committed"
  /\ Len(last.tasks) = 1
  /\ HumanWaiting(last.tasks[1])
  /\ \A i \in DOMAIN queue : queue[i][1] # last.tasks[1]
  /\ queue # <<>>


\* ----------------------------------------------------------------- C3
\* Every queued message names a committed task row of the process it carries.
QueueNamesCommittedRows ==
  \A i \in DOMAIN queue :
    /\ queue[i][1] \in DOMAIN task
    /\ task[queue[i][1]].process = queue[i][2]

\* The tasks whose message the commit of the open transaction must dispatch:
\* the machine successors it created and the task it rescheduled.
DueForDispatch ==
  {pk \in Range(last.tasks) : Callable(wtask[pk].node_name)}
    \cup (IF last.op = "rerun" THEN {last.pk} ELSE {})

\* A handler body dispatches nothing, a rollback dispatches nothing, and a
\* commit dispatches exactly one message for each task due, whose committed
\* row is then scheduled.
DispatchOnlyAtCommit ==
  /\ (~txOpen /\ txOpen') =>
        \A i \in DOMAIN queue' : Count(queue', queue'[i]) <= Count(queue, queue'[i])
  /\ (txOpen /\ last'.phase = "rolledback") => queue' = queue
  /\ (txOpen /\ last'.phase = "committed") =>
        /\ Len(queue') = Len(queue) + Cardinality(DueForDispatch)
        /\ SubSeq(queue', 1, Len(queue)) = queue
        /\ \A pk \in DOMAIN task' :
             Count(queue', <<pk, task'[pk].process>>)
               = Count(queue, <<pk, task'[pk].process>>)
                   + (IF pk \in DueForDispatch THEN 1 ELSE 0)
        /\ \A pk \in DueForDispatch :
             /\ task'[pk].status = SCHEDULED
             /\ task'[pk].completed = Null

\* C3: a task's message is never in the queue before the transaction that
\* created or rescheduled the task has committed, never after it rolled back,
\* and the commit dispatches exactly one message per machine successor, so
\* every message names a committed row.
C3_EnqueueAfterCommit ==
  /\ []QueueNamesCommittedRows
  /\ [][DispatchOnlyAtCommit]_vars

\* A POST has committed and each of its two machine successors has its one
\* message in the queue.
C3_Witness ==
  /\ last.op = "post"
  /\ last.phase = "committed"
  /\ Len(last.tasks) = 2
  /\ \A i \in 1..2 :
       /\ task[last.tasks[i]].node_type = MACHINE
       /\ Count(queue, <<last.tasks[i], last.proc>>) = 1


\* ------------------------------------------------- Task.save on its own
\* A second specification: one stored task row, and one call of Task.save on
\* an instance of it (or on a new instance) whose fields were changed in
\* memory, with or without update_fields.
Statuses == {SCHEDULED, SUCCEEDED, FAILED}
Texts == {EmptyStr, <<"E">>}

StoredRows ==
  {[process |-> 1, node_name |-> "work", node_type |-> MACHINE, status |-> st,
    completed |-> co, completed_by_user |-> Null, created |-> Earlier,
    modified |-> Earlier, exception |-> ex, stacktrace |-> ex] :
      st \in Statuses, co \in {Null, Earlier}, ex \in Texts}

\* The instances save can be called on: the stored row loaded and changed in
\* memory, or an instance that was never saved.
Instances(tbl) ==
  {[Load(tbl, 1) EXCEPT !.status = st, !.completed = co, !.exception = ex] :
      st \in Statuses, co \in {Null, Now}, ex \in Texts}
    \cup {[NewTask(1, "done", MACHINE) EXCEPT !.status = st] : st \in Statuses}

\* The update_fields arguments tried.
UpdateFieldArgs == {Absent} \cup SUBSET {"status", "completed", "exception"}

\* task.save(update_fields=uf), or task.save() when uf is absent, outside
\* any atomic block.
SaveCall(obj, uf) ==
  /\ last.op = "none"
  /\ LET s == Save(task, obj, uf)
     IN /\ task' = s.tbl
        /\ wtask' = s.tbl
        /\ last' = [NoRequest EXCEPT !.op = "save", !.code = s.err, !.pk = s.obj.pk,
                                     !.obj = obj, !.uf = uf, !.ntask = Len(task)]
  /\ UNCHANGED <<proc, links, queue, txOpen, wproc, wlinks, hooks, inflight>>

InitSave ==
  /\ proc = <<[data |-> "a", modified |-> Earlier]>>
  /\ task \in {<<r>> : r \in StoredRows}
  /\ links = {}
  /\ queue = <<>>
  /\ txOpen = FALSE
  /\ wproc = proc
  /\ wtask = task
  /\ wlinks = {}
  /\ hooks = <<>>
  /\ last = NoRequest
  /\ inflight = <<>>

\* The Process instances save can be called on: the stored row loaded and
\* changed by a form, or an instance that was never saved.
ProcessInstances ==
  {[pk |-> 1, data |-> d, modified |-> proc[1].modified] : d \in FormData}
    \cup {[pk |-> NoPk, data |-> d, modified |-> Null] : d \in FormData}

\* process.save(update_fields=uf), or process.save() when uf is absent (as
\* ModelForm.save() calls it), outside any atomic block.
ProcessSaveCall(obj, uf) ==
  /\ last.op = "none"
  /\ obj.pk = NoPk => uf = Absent
  /\ LET s == ProcessSave(proc, obj, uf)
     IN /\ proc' = s.tbl
        /\ wproc' = s.tbl
        /\ last' = [NoRequest EXCEPT !.op = "psave", !.code = s.err, !.pk = s.obj.pk,
                                     !.obj = obj, !.uf = uf, !.ntask = Len(task)]
  /\ UNCHANGED <<task, links, queue, txOpen, wtask, wlinks, hooks, inflight>>

NextSave ==
  \/ \E obj \in Instances(task), uf \in UpdateFieldArgs : SaveCall(obj, uf)
  \/ \E obj \in ProcessInstances, uf \in {Absent, {}, {"data"}} : ProcessSaveCall(obj, uf)

SpecSave == InitSave /\ [][NextSave]_vars

\* ----------------------------------------------------------------- C4
\* C4: Task.save on an instance with a pk and no update_fields raises
\* ValueError and leaves the stored rows as they were; with update_fields it
\* writes the listed columns and modified, and no other column; an instance
\* without pk is saved without update_fields as a new row.
C4_SaveNeedsUpdateFields ==
  [][last'.op = "save" =>
       LET o == last'.obj
           uf == last'.uf
       IN /\ (o.pk # NoPk /\ uf = Absent) =>
               /\ last'.code = "ValueError"
               /\ task' = task
          /\ (o.pk # NoPk /\ uf # Absent) =>
               /\ last'.code = "none"
               /\ Len(task') = Len(task)
               /\ \A f \in Fields :
                    task'[o.pk][f] = (IF f = "modified" THEN Now
                                      ELSE IF f \in uf THEN o[f]
                                      ELSE task[o.pk][f])
          /\ (o.pk = NoPk /\ uf = Absent) =>
               /\ last'.code = "none"
               /\ task' = Append(task, task'[Len(task')])
               /\ last'.pk = Len(task')
               /\ \A f \in Fields \ {"created", "modified"} : task'[Len(task')][f] = o[f]
               /\ task'[Len(task')].created = Now
               /\ task'[Len(task')].modified = Now]_vars

\* A save without update_fields was refused although the instance differed
\* from its stored row.
C4_Witness ==
  /\ last.op = "save"
  /\ last.code = "ValueError"
  /\ last.obj.pk = 1
  /\ last.uf = Absent
  /\ last.obj.status # task[1].status
  /\ last.obj.completed # task[1].completed


\* ----------------------------------------------------------------- C5
\* The tasks of process p with completed = null in a Task table.
NullCompleted(tbl, p) == {pk \in DOMAIN tbl : tbl[pk].process = p /\ tbl[pk].completed = Null}

\* The latest request is a valid override whose body ran.
Overrode == last.op = "override" /\ Ran

\* C5: after a valid override (before and after its commit) every task of
\* the process that had completed = null when the override ran is succeeded
\* with a completed timestamp, and the tasks of the process with completed =
\* null are exactly the tasks newly created for the chosen nodes.
C5_OverrideFinishesActive ==
  Overrode =>
    /\ last.phase = "open" => last.active = NullCompleted(task, last.proc)
    /\ \A pk \in last.active :
         /\ wtask[pk].status = SUCCEEDED
         /\ wtask[pk].completed # Null
    /\ NullCompleted(wtask, last.proc) = Range(last.tasks)
    /\ Range(last.tasks) \subseteq NewPks
    /\ last.phase = "committed" => wtask = task

\* An override has committed that finished an active task of its process,
\* while a task of another process is still active.
C5_Witness ==
  /\ Overrode
  /\ last.phase = "committed"
  /\ last.active # {}
  /\ \E pk \in DOMAIN task : task[pk].process # last.proc /\ task[pk].completed = Null

\* ----------------------------------------------------------------- C6
\* The part of C6 that holds as stated: one new manual_override task, itself
\* succeeded, whose parents are exactly the tasks that were active.
OverrideTaskRecorded ==
  /\ last.self \in NewPks
  /\ {pk \in NewPks : wtask[pk].node_name = "manual_override"} = {last.self}
  /\ wtask[last.self].process = last.proc
  /\ wtask[last.self].status = SUCCEEDED
  /\ wtask[last.self].completed # Null
  /\ last.phase = "open" => last.active = NullCompleted(task, last.proc)
  /\ ParentsOf(wlinks, last.self) = last.active
  /\ last.self \notin last.active
  /\ NewPks = {last.self} \cup Range(last.tasks)

\* C6 as stated: the override task has exactly one child for each chosen node.
C6_OneChildPerChosenNode ==
  Overrode =>
    \A n \in Range(last.chosen) :
      Cardinality({pk \in ChildrenOf(wlinks, last.self) : wtask[pk].node_name = n}) = 1

\* C6 (amended): each valid override creates exactly one manual_override task,
\* itself succeeded, whose parents are exactly the tasks that were active and
\* never itself, and whose children are one new scheduled task per entry of
\* the submitted next_tasks list, in order (a node named twice gets two
\* tasks), each machine entry being enqueued once.
C6_OverrideBookkeeping ==
  Overrode =>
    /\ OverrideTaskRecorded
    /\ Len(last.tasks) = Len(last.chosen)
    /\ ChildrenOf(wlinks, last.self) = Range(last.tasks)
    /\ \A i, j \in DOMAIN last.tasks : i # j => last.tasks[i] # last.tasks[j]
    /\ \A i \in DOMAIN last.tasks :
         LET pk == last.tasks[i] IN
           /\ wtask[pk].node_name = last.chosen[i]
           /\ wtask[pk].node_type = NodeType(last.chosen[i])
           /\ wtask[pk].process = last.proc
           /\ wtask[pk].status = SCHEDULED
           /\ wtask[pk].completed = Null
           /\ ParentsOf(wlinks, pk) = {last.self}
           /\ last.phase = "open" =>
                Cardinality(EnqueueHooks(pk)) = (IF Callable(last.chosen[i]) THEN 1 ELSE 0)
           /\ last.phase = "committed" =>
                Count(queue, <<pk, last.proc>>) = (IF Callable(last.chosen[i]) THEN 1 ELSE 0)

\* An override of a process with an active task has committed, re-entering at
\* a machine node and a human node.
C6_Witness ==
  /\ Overrode
  /\ last.phase = "committed"
  /\ last.active # {}
  /\ last.chosen = <<"work", "approve">>
  /\ Len(last.tasks) = 2
  /\ ParentsOf(links, last.self) = last.active


\* ----------------------------------------------------------------- C7
\* The text e is the line with the whitespace at both ends taken away.
IsStrippedOf(e, line) ==
  /\ e # <<>> => (e[1] \notin Whitespace /\ e[Len(e)] \notin Whitespace)
  /\ \E a \in 0..Len(line), b \in 0..Len(line) :
       /\ a <= b
       /\ SubSeq(line, a + 1, b) = e
       /\ \A k \in 1..a : line[k] \in Whitespace
       /\ \A k \in (b + 1)..Len(line) : line[k] \in Whitespace

RECURSIVE LengthBefore(_, _)
\* The number of characters in the lines before line i.
LengthBefore(lines, i) ==
  IF i <= 1 THEN 0 ELSE LengthBefore(lines, i - 1) + Len(lines[i - 1])

\* The text s is the lines one after another, nothing added or left out.
IsWholeOf(s, lines) ==
  /\ Len(s) = LengthBefore(lines, Len(lines) + 1)
  /\ \A i \in DOMAIN lines :
       SubSeq(s, LengthBefore(lines, i) + 1, LengthBefore(lines, i) + Len(lines[i])) = lines[i]

\* A task that a worker has just failed is stored as failed, with the
\* stripped last traceback line as exception and the whole traceback as
\* stacktrace, both non-empty.
FailStoresTraceback ==
  (last.op = "worker" /\ last.code = "failed" /\ Ran) =>
    LET row == wtask[last.pk] IN
      /\ row.status = FAILED
      /\ row.exception # EmptyStr
      /\ row.stacktrace # EmptyStr
      /\ IsStrippedOf(row.exception, last.tb[Len(last.tb)])
      /\ IsWholeOf(row.stacktrace, last.tb)

\* The step commits an enqueue of task pk.
EnqueueCommits(pk) ==
  /\ txOpen /\ ~txOpen'
  /\ last'.phase = "committed"
  /\ last'.op = "rerun"
  /\ last'.pk = pk

\* A stored exception and stacktrace change only when the task is enqueued
\* again, which empties both.
ErrorStaysUntilEnqueue ==
  \A pk \in DOMAIN task :
    task[pk].exception # EmptyStr =>
      \/ /\ task'[pk].exception = task[pk].exception
         /\ task'[pk].stacktrace = task[pk].stacktrace
      \/ /\ EnqueueCommits(pk)
         /\ task'[pk].exception = EmptyStr
         /\ task'[pk].stacktrace = EmptyStr

\* C7: Task.fail puts the task in status failed and stores the stripped last
\* line of the formatted traceback as exception and the whole formatted
\* traceback as stacktrace; both are non-empty and stay stored until the task
\* is enqueued again.
C7_FailStoresError ==
  /\ []FailStoresTraceback
  /\ [][ErrorStaysUntilEnqueue]_vars

\* A failure with a three-line traceback has committed: the stored exception
\* is its last line without the line break.
C7_Witness ==
  /\ last.op = "worker"
  /\ last.code = "failed"
  /\ last.phase = "committed"
  /\ last.tb = TbError
  /\ task[last.pk].status = FAILED
  /\ task[last.pk].exception = <<"E", ":", " ", "m">>
  /\ Len(task[last.pk].stacktrace) = 17

\* ----------------------------------------------------------------- C8
\* The request of this step is a POST to the view of a human node.
PostStep == ~txOpen /\ last'.op = "post"

\* C8: a POST to a human task view whose pk names no task, a task of another
\* node, or a task whose completed is not null ends in 404 and changes
\* nothing: no row, no link, no message, no open transaction, no callback.
C8_NotFoundChangesNothing ==
  [][(PostStep /\ ~(/\ last'.pk \in DOMAIN task
                    /\ task[last'.pk].node_name = last'.node
                    /\ task[last'.pk].completed = Null)) =>
       /\ last'.code = "404"
       /\ last'.tasks = <<>>
       /\ UNCHANGED <<proc, task, links, queue, txOpen, wproc, wtask, wlinks, hooks>>]_vars

\* A POST for a task of the view's node that is already completed got 404,
\* and the task has the successors it had.
C8_Witness ==
  /\ last.op = "post"
  /\ last.code = "404"
  /\ last.pk \in DOMAIN task
  /\ task[last.pk].node_name = last.node
  /\ task[last.pk].status = SUCCEEDED
  /\ task[last.pk].completed # Null
  /\ Cardinality(ChildrenOf(links, last.pk)) = 2
  /\ ~txOpen

\* ----------------------------------------------------------------- C9
\* C9: once a POST to a human task view with an invalid form has ended, the
\* response shows the form again and the workflow is as it was: the task is
\* still scheduled with completed = null and has no successor task, created
\* or enqueued.
C9_InvalidFormChangesNothing ==
  (last.op = "post" /\ ~last.valid /\ last.code \notin {"404", "500"} /\ last.phase # "open") =>
    /\ last.code = "200"
    /\ task[last.pk].status = SCHEDULED
    /\ task[last.pk].completed = Null
    /\ ChildrenOf(links, last.pk) = {}
    /\ \A i \in DOMAIN queue : queue[i][1] \notin Range(last.tasks)

\* ----------------------------------------------------------------- C10
\* The request of this step is an override by a user without the permission.
DeniedOverrideStep == ~txOpen /\ last'.op = "override" /\ ~last'.perm

\* C10: an override request from a user without the 'override' permission is
\* denied and changes nothing: no task is finished, no manual_override task
\* and no re-entry task is created, nothing is enqueued.
C10_DeniedOverrideChangesNothing ==
  [][DeniedOverrideStep =>
       /\ last'.code = "403"
       /\ last'.tasks = <<>>
       /\ UNCHANGED <<proc, task, links, queue, txOpen, wproc, wtask, wlinks, hooks>>]_vars

\* A user without the permission was denied an otherwise valid override of an
\* existing process that has an active task.
C10_Witness ==
  /\ last.op = "override"
  /\ ~last.perm
  /\ last.valid
  /\ last.code = "403"
  /\ last.proc \in DOMAIN proc
  /\ NullCompleted(task, last.proc) # {}
  /\ \A pk \in DOMAIN task : task[pk].node_name # "manual_override"
  /\ ~txOpen

\* ----------------------------------------------------------------- C11
RECURSIVE AncestorsIn(_, _, _)
\* The tasks reached from the set s by following parent links at most n times.
AncestorsIn(l, s, n) ==
  IF n = 0 THEN {}
  ELSE LET up == UNION {ParentsOf(l, x) : x \in s}
       IN up \cup AncestorsIn(l, up, n - 1)

\* The ancestors of task pk: its parents, their parents, and so on.
Ancestors(l, tbl, pk) == AncestorsIn(l, {pk}, Len(tbl))

\* The relation l over the rows of tbl is acyclic and every link joins two
\* rows of the same process instance.
IsDag(l, tbl) ==
  /\ \A x \in l :
       /\ x[1] \in DOMAIN tbl
       /\ x[2] \in DOMAIN tbl
       /\ x[1] # x[2]
       /\ tbl[x[1]].process = tbl[x[2]].process
  /\ \A pk \in DOMAIN tbl : pk \notin Ancestors(l, tbl, pk)

\* No step takes a stored link away, and a handler body (start_next_tasks,
\* finish, fail, enqueue, override) keeps every stored link in its
\* transaction's view.
LinksOnlyAdded ==
  /\ links \subseteq links'
  /\ txOpen' => links \subseteq wlinks'

\* C11: the parent/child relation is an append-only DAG in the stored state
\* and in every transaction's view of it: acyclic, no task its own ancestor,
\* every link between two tasks of one process instance, and no recorded link
\* ever removed.
C11_AppendOnlyDag ==
  /\ [](IsDag(links, task) /\ IsDag(wlinks, wtask))
  /\ [][LinksOnlyAdded]_vars

\* An override of a process with two active tasks has committed: its task has
\* two parents and a chain of ancestors back to the start task, and a child.
C11_Witness ==
  /\ last.op = "override"
  /\ last.phase = "committed"
  /\ Cardinality(ParentsOf(links, last.self)) = 2
  /\ Cardinality(Ancestors(links, task, last.self)) >= 4
  /\ ChildrenOf(links, last.self) # {}

\* ------------------------------------------------ Process.urls on its own
\* A third specification: a Process subclass with some class name and some
\* edges over four nodes (the create view start, the update view approve, the
\* functions work and done), and one call of its urls().

\* Longest edges tuple of a class tried.
MaxEdges == 2

UrlNodes == {"start", "approve", "work", "done"}

EdgeLists == UNION {[1..n -> UrlNodes \X UrlNodes] : n \in 0..MaxEdges}

ClassNames == {<<"F", "l", "o", "w">>, <<"M", "y", "P">>}

Classes == {[name |-> nm, edges |-> es] : nm \in ClassNames, es \in EdgeLists}

\* get_nodes of a class with the edges es: the set of nodes on some edge.
NodesOf(es) == {es[i][1] : i \in DOMAIN es} \cup {es[i][2] : i \in DOMAIN es}

\* The orders in which iterating over the set of nodes can yield them.
Orders(nodes) ==
  {f \in [1..Cardinality(nodes) -> nodes] : {f[i] : i \in DOMAIN f} = nodes}

\* str.lower() of one character.
Lower(ch) ==
  CASE ch = "F" -> "f"
    [] ch = "M" -> "m"
    [] ch = "P" -> "p"
    [] OTHER -> ch

\* Process.get_url_namespace: cls.__name__.lower()
GetUrlNamespace(cls) == [i \in DOMAIN cls.name |-> Lower(cls.name[i])]

\* path(route, view, name=name)
Path(route, view, node_name, name) ==
  [route |-> route, view |-> view, node_name |-> node_name, name |-> name]

\* A route format that puts <pk> into the route of every task view.
RouteWithPk(name) == name \o "/<pk>/"

\* '{name}/'.format(name=name) for a create view, '{name}/<pk>/' otherwise.
Route(name) == IF IsCreateView(name) THEN name \o "/" ELSE name \o "/<pk>/"

RECURSIVE NodeUrls(_)
\* The loop of urls() over get_nodes(): a path for every task view.
NodeUrls(order) ==
  IF order = <<>> THEN <<>>
  ELSE LET name == Head(order)
       IN (IF IsTaskView(name)
           THEN <<Path(Route(name), "TaskView", name, name)>>
           ELSE <<>>)
          \o NodeUrls(Tail(order))

\* Process.urls(), get_nodes() yielding the nodes in the given order.
urls(cls, order) ==
  [list |-> NodeUrls(order)
              \o << Path("<pk>/", "ProcessDetailView", Null, "detail"),
                    Path("<pk>/override", "ManualOverrideView", Null, "override") >>,
   namespace |-> GetUrlNamespace(cls)]

\* cls.urls() is called.
UrlsCall ==
  /\ last.op = "class"
  /\ \E order \in Orders(NodesOf(last.cls.edges)) :
       LET r == urls(last.cls, order)
       IN last' = [op |-> "urls", cls |-> last.cls, list |-> r.list,
                   namespace |-> r.namespace]
  /\ UNCHANGED <<proc, task, links, queue, txOpen, wproc, wtask, wlinks, hooks, inflight>>

InitUrls ==
  /\ proc = <<>>
  /\ task = <<>>
  /\ links = {}
  /\ queue = <<>>
  /\ txOpen = FALSE
  /\ wproc = <<>>
  /\ wtask = <<>>
  /\ wlinks = {}
  /\ hooks = <<>>
  /\ last \in {[op |-> "class", cls |-> c] : c \in Classes}
  /\ inflight = <<>>

NextUrls == UrlsCall

SpecUrls == InitUrls /\ [][NextUrls]_vars

\* ----------------------------------------------------------------- C12
\* The positions in the returned list whose route is named n.
RoutesNamed(n) == {i \in DOMAIN last.list : last.list[i].name = n}

\* urls() appends the detail route and the override route, routes no machine
\* node, and returns the lower-cased class name as namespace.
UrlsFrame ==
  LET nodes == NodesOf(last.cls.edges)
      n == Len(last.list)
  IN /\ n = Cardinality({x \in nodes : IsTaskView(x)}) + 2
     /\ \A x \in nodes : ~IsTaskView(x) => RoutesNamed(x) = {}
     /\ \A i \in 1..(n - 2) : last.list[i].name \in nodes
     /\ last.list[n - 1].route = "<pk>/"
     /\ last.list[n - 1].name = "detail"
     /\ last.list[n - 1].view = "ProcessDetailView"
     /\ last.list[n].route = "<pk>/override"
     /\ last.list[n].name = "override"
     /\ last.list[n].view = "ManualOverrideView"
     /\ last.namespace = (IF last.cls.name = <<"M", "y", "P">>
                          THEN <<"m", "y", "p">> ELSE <<"f", "l", "o", "w">>)

\* C12 as stated: every human node has exactly one route, at <node>/<pk>/.
C12_HumanRoutesCarryPk ==
  last.op = "urls" =>
    \A x \in NodesOf(last.cls.edges) :
      IsTaskView(x) =>
        /\ Cardinality(RoutesNamed(x)) = 1
        /\ \A i \in RoutesNamed(x) : last.list[i].route = x \o "/<pk>/"

\* C12 (amended): urls() maps each human node of the graph to exactly one
\* route named after the node and served by the node's view, at <node>/<pk>/
\* for an update view and at <node>/ (no pk) for a create view, gives no route
\* to a machine node, and always appends the detail route <pk>/ and the
\* override route <pk>/override, returned with the lower-cased class name.
C12_UrlsRoutes ==
  last.op = "urls" =>
    /\ UrlsFrame
    /\ \A x \in NodesOf(last.cls.edges) :
         IsTaskView(x) =>
           /\ Cardinality(RoutesNamed(x)) = 1
           /\ \A i \in RoutesNamed(x) :
                /\ last.list[i].view = "TaskView"
                /\ last.list[i].node_name = x
                /\ last.list[i].route = (IF x = "start" THEN "start/" ELSE "approve/<pk>/")

\* urls() of the class MyP whose graph has a create view, an update view and
\* a function: two node routes, then detail and override.
C12_Witness ==
  /\ last.op = "urls"
  /\ last.cls.name = <<"M", "y", "P">>
  /\ NodesOf(last.cls.edges) = {"start", "approve", "work"}
  /\ Len(last.list) = 4
  /\ last.list[1].route = "approve/<pk>/"
  /\ last.list[2].route = "start/"
  /\ last.namespace = <<"m", "y", "p">>

\* ----------------------------------------------------------------- C13
\* The request of this step was ended by an exception raised after finish.
RaisedStep == ~txOpen /\ last'.code = "500" /\ last'.op \in {"post", "override"}

\* How many of the given tasks are tasks of node n.
CountNode(tbl, pks, n) == Cardinality({pk \in pks : tbl[pk].node_name = n})

\* The stored task pk has all the successors of its completion: one child per
\* edge that leaves its node, or, when an override completed it, the override
\* task as only child; an override task has a child.
SuccessorsComplete(pk) ==
  LET kids == ChildrenOf(links, pk)
      out == EdgesFrom(task[pk].node_name)
  IN IF task[pk].node_name = "manual_override"
     THEN kids # {}
     ELSE \/ /\ Cardinality(kids) = Len(out)
             /\ \A n \in GetNodes :
                  CountNode(task, kids, n) = Cardinality({i \in DOMAIN out : out[i][2] = n})
          \/ /\ Cardinality(kids) = 1
             /\ CountNode(task, kids, "manual_override") = 1

\* No stored state shows a succeeded task without all its successors or with
\* part of them, a task that is not succeeded has no successor, and every
\* message names a stored task.
NoPartialCompletion ==
  /\ \A pk \in DOMAIN task :
       /\ task[pk].status = SUCCEEDED => SuccessorsComplete(pk)
       /\ task[pk].status # SUCCEEDED => ChildrenOf(links, pk) = {}
  /\ \A i \in DOMAIN queue : queue[i][1] \in DOMAIN task

\* C13: when start_next_tasks raises inside a human-task POST or an override,
\* after finish, the whole transaction rolls back: the stored rows, links and
\* queue are what they were, no transaction stays open, no callback is left;
\* so no stored state shows a task succeeded without all its successors or
\* with part of them, and no message was dispatched for it.
C13_RaiseRollsBack ==
  /\ []NoPartialCompletion
  /\ [][RaisedStep =>
          /\ UNCHANGED <<proc, task, links, queue>>
          /\ ~txOpen'
          /\ hooks' = <<>>
          /\ wtask' = task /\ wlinks' = links /\ wproc' = proc]_vars

\* A POST for a scheduled approve task raised after start_next_tasks had
\* created one of its two successors: the task is still scheduled and has no
\* child, no row was added, and the queue has no message.
C13_Witness ==
  /\ last.op = "post"
  /\ last.code = "500"
  /\ Len(last.tasks) = 1
  /\ task[last.pk].status = SCHEDULED
  /\ task[last.pk].completed = Null
  /\ ChildrenOf(links, last.pk) = {}
  /\ Len(task) = last.ntask
  /\ last.tasks[1] \notin DOMAIN task
  /\ queue = <<>>
  /\ ~txOpen

\* An override raised after it had finished the active tasks, created the
\* override task and one of two chosen tasks: the active tasks are still
\* active.
C13_OverrideRolledBack ==
  /\ last.op = "override"
  /\ last.code = "500"
  /\ Len(last.tasks) = 1
  /\ last.active # {}
  /\ last.active = NullCompleted(task, last.proc)
  /\ last.self \notin DOMAIN task

\* ------------------------------------------------ two concurrent POSTs
\* A fourth specification: two requests POST to the approve view, each in a
\* transaction of its own, on a database that shows a statement the rows
\* committed so far and its own transaction's writes (read committed) and
\* makes an UPDATE wait while another open transaction has written the row.
\* A request's steps are the statements of TaskViewMixin.post in order.
Requests == {1, 2}

\* The stored state when the requests arrive: a start POST has committed, so
\* process 1 has its succeeded start task 1 and the scheduled approve task 2.
RaceStart ==
  LET s == FormSave(Conn(<<>>, <<>>, {}, <<>>, <<>>, TRUE), NoPk, "a")
  IN CommitConn(PostTail(s.c, NewTask(NoPk, "start", NoType), s.obj.pk).c)

\* A request that has not arrived.
IdleRequest ==
  [pc |-> "idle", pk |-> NoPk, form |-> Invalid, object |-> NoPk,
   obj |-> <<>>, staged |-> <<>>]

\* Request r has updated process row p in its open transaction.
HoldsProcess(r, p) ==
  /\ inflight[r].pc \in {"saved", "task", "done"}
  /\ inflight[r].form # Invalid
  /\ inflight[r].object = p

\* Request r has updated task row pk in its open transaction.
HoldsTask(r, pk) == inflight[r].pc = "done" /\ inflight[r].pk = pk

\* A POST for task pk with the given form data arrives and enters post's
\* atomic block.
RaceRequest(r, pk, form) ==
  /\ inflight[r].pc = "idle"
  /\ inflight' = [inflight EXCEPT ![r] = [IdleRequest EXCEPT !.pc = "new", !.pk = pk,
                                                            !.form = form]]
  /\ UNCHANGED <<proc, task, links, queue, txOpen, wproc, wtask, wlinks, hooks, last>>

\* super().post(): get_object() is get_task().process, or Http404.
RaceGetObject(r) ==
  /\ inflight[r].pc = "new"
  /\ LET found == GetTask(task, inflight[r].pk, "approve")
     IN inflight' = [inflight EXCEPT ![r] =
                       IF found = <<>> THEN [@ EXCEPT !.pc = "404"]
                       ELSE [@ EXCEPT !.pc = "object", !.object = found[1].process]]
  /\ UNCHANGED <<proc, task, links, queue, txOpen, wproc, wtask, wlinks, hooks, last>>

\* super().post(): a valid form is saved, which updates the process row and
\* waits while the other request's transaction has updated it; an invalid
\* form is shown again and writes nothing.
RaceForm(r) ==
  /\ inflight[r].pc = "object"
  /\ inflight[r].form # Invalid =>
       \A o \in Requests \ {r} : ~HoldsProcess(o, inflight[r].object)
  /\ inflight' = [inflight EXCEPT ![r].pc = "saved"]
  /\ UNCHANGED <<proc, task, links, queue, txOpen, wproc, wtask, wlinks, hooks, last>>

\* task = self.get_task(): the second lookup, on the rows committed by now.
\* Http404 leaves the atomic block, which rolls the process update back.
RaceGetTask(r) ==
  /\ inflight[r].pc = "saved"
  /\ LET found == GetTask(task, inflight[r].pk, "approve")
     IN inflight' = [inflight EXCEPT ![r] =
                       IF found = <<>> THEN [@ EXCEPT !.pc = "404"]
                       ELSE [@ EXCEPT !.pc = "task", !.obj = found]]
  /\ UNCHANGED <<proc, task, links, queue, txOpen, wproc, wtask, wlinks, hooks, last>>

\* task.process = self.object; task.finish(); task.start_next_tasks(): the
\* UPDATE of finish waits while the other request's transaction has updated
\* the task row, then writes the instance that get_task returned.  The
\* writes are staged in the request's transaction.
RaceFinishStart(r) ==
  /\ inflight[r].pc = "task"
  /\ \A o \in Requests \ {r} : ~HoldsTask(o, inflight[r].pk)
  /\ LET c0 == Conn(proc, task, links, <<>>, queue, TRUE)
         c1 == IF inflight[r].form = Invalid THEN c0
               ELSE FormSave(c0, inflight[r].object, inflight[r].form).c
         t == PostTail(c1, inflight[r].obj[1], inflight[r].object)
     IN inflight' = [inflight EXCEPT ![r] = [@ EXCEPT !.pc = "done", !.staged = <<t.c>>]]
  /\ UNCHANGED <<proc, task, links, queue, txOpen, wproc, wtask, wlinks, hooks, last>>

\* post returns: the atomic block commits and the callbacks run.
RaceCommit(r) ==
  /\ inflight[r].pc = "done"
  /\ LET c == CommitConn(inflight[r].staged[1])
     IN /\ proc' = c.proc
        /\ task' = c.task
        /\ links' = c.links
        /\ queue' = c.queue
  /\ inflight' = [inflight EXCEPT ![r] = [@ EXCEPT !.pc = "committed", !.staged = <<>>]]
  /\ UNCHANGED <<txOpen, wproc, wtask, wlinks, hooks, last>>

InitRace ==
  /\ proc = RaceStart.proc
  /\ task = RaceStart.task
  /\ links = RaceStart.links
  /\ queue = RaceStart.queue
  /\ txOpen = FALSE
  /\ wproc = proc
  /\ wtask = task
  /\ wlinks = links
  /\ hooks = <<>>
  /\ last = NoRequest
  /\ inflight = [r \in Requests |-> IdleRequest]

NextRace ==
  \/ \E r \in Requests, pk \in DOMAIN RaceStart.task, form \in Forms : RaceRequest(r, pk, form)
  \/ \E r \in Requests : RaceGetObject(r)
  \/ \E r \in Requests : RaceForm(r)
  \/ \E r \in Requests : RaceGetTask(r)
  \/ \E r \in Requests : RaceFinishStart(r)
  \/ \E r \in Requests : RaceCommit(r)

SpecRace == InitRace /\ [][NextRace]_vars

\* ----------------------------------------------------------------- C14
\* The requests that have finished task pk and committed.
Finishers(pk) == {r \in Requests : inflight[r].pc = "committed" /\ inflight[r].pk = pk}

\* C14: under every interleaving of two concurrent POSTs for the same
\* scheduled human task at most one of them finishes the task, and the task
\* has at most one child per edge that leaves its node.
C14_AtMostOnce ==
  \A pk \in DOMAIN task :
    /\ Cardinality(Finishers(pk)) <= 1
    /\ Cardinality(ChildrenOf(links, pk)) <= Len(EdgesFrom(task[pk].node_name))

\* When both requests carry a valid form, the update of the process row makes
\* the second wait for the first and its second lookup finds no active task.
ValidFormsFinishOnce ==
  (\A r \in Requests : inflight[r].pc # "idle" /\ inflight[r].form # Invalid) => C14_AtMostOnce

\* ----------------------------------------------------------------- C15
\* The columns Task.fail lists in update_fields, and modified.
FailColumns == {"status", "exception", "stacktrace", "modified"}

\* The body of this step is a worker's Task.fail on a stored task.
FailStep == ~txOpen /\ txOpen' /\ last'.op = "worker" /\ last'.code = "failed"

\* Task.fail changes the row of its task in the listed columns only: the
\* stored completed stays null although the instance has a timestamp.
FailLeavesCompleted ==
  FailStep =>
    LET pk == last'.pk IN
      /\ task[pk].completed = Null
      /\ last'.obj.completed # Null
      /\ wtask'[pk].completed = Null
      /\ wtask'[pk].status = FAILED
      /\ \A f \in Fields \ FailColumns : wtask'[pk][f] = task[pk][f]
      /\ \A other \in DOMAIN task \ {pk} : wtask'[other] = task[other]
      /\ Len(wtask') = Len(task)

\* A stored task that failed and was not completed since is still selected
\* by the lookup of active tasks.
FailedStaysActive ==
  \A pk \in DOMAIN task :
    (task[pk].status = FAILED) =>
      /\ task[pk].completed = Null
      /\ TaskFound(task, pk, task[pk].node_name)
      /\ pk \in ActiveTasks(task, task[pk].process)

\* An override of a process force-completes the failed tasks of the process.
OverrideCompletesFailed ==
  (~txOpen /\ txOpen' /\ last'.op = "override") =>
    \A pk \in DOMAIN task :
      (task[pk].status = FAILED /\ task[pk].process = last'.proc) =>
        /\ pk \in last'.active
        /\ wtask'[pk].status = SUCCEEDED
        /\ wtask'[pk].completed # Null

\* C15: Task.fail writes status, exception, stacktrace and modified only; the
\* stored completed of a task that had none is still null after fail, although
\* the instance got a timestamp, so the failed task is still selected as
\* active by the lookup with completed = null and a later override of its
\* process force-completes it.
C15_FailKeepsCompletedNull ==
  /\ []FailedStaysActive
  /\ [][FailLeavesCompleted /\ OverrideCompletesFailed]_vars

\* An override has committed that force-completed a task which had failed:
\* the task is succeeded and still carries the exception of its failure.
C15_Witness ==
  /\ last.op = "override"
  /\ last.phase = "committed"
  /\ \E pk \in last.active :
       /\ task[pk].status = SUCCEEDED
       /\ task[pk].completed # Null
       /\ task[pk].exception # EmptyStr

\* ----------------------------------------------------------------- C16
\* Every row of the table has one of the three statuses, a scheduled row has
\* no completed timestamp and a succeeded row has one.
StatusConsistent(tbl) ==
  \A pk \in DOMAIN tbl :
    /\ tbl[pk].status \in {SCHEDULED, SUCCEEDED, FAILED}
    /\ tbl[pk].status = SCHEDULED => tbl[pk].completed = Null
    /\ tbl[pk].status = SUCCEEDED => tbl[pk].completed # Null

\* The stored tasks are consistent (also after any sequence of create,
\* finish, fail and enqueue calls, on any instance, in SpecOps).
StoredStatusConsistent == StatusConsistent(task)

\* The rows a request created with task_set.create (successors, re-entry
\* tasks) are stored scheduled when the request commits.
CreatedScheduled ==
  (txOpen /\ last'.phase = "committed") =>
    \A i \in DOMAIN last'.tasks :
      /\ last'.tasks[i] \notin DOMAIN task
      /\ task'[last'.tasks[i]].status = SCHEDULED

\* C16: in every stored state, and in every transaction's view of it, each
\* task's status is scheduled, succeeded or failed, a scheduled task has
\* completed = null and a succeeded task has a completed timestamp; a task
\* created as a successor starts scheduled.
C16_StatusInvariant ==
  /\ [](StatusConsistent(task) /\ StatusConsistent(wtask))
  /\ [][CreatedScheduled]_vars

\* The stored tasks show all three statuses, after a failure, a rerun of
\* another failed task and an override.
C16_Witness ==
  /\ ~txOpen
  /\ {task[pk].status : pk \in DOMAIN task} = {SCHEDULED, SUCCEEDED, FAILED}
  /\ \E pk \in DOMAIN task : task[pk].node_name = "manual_override"
  /\ \E pk \in DOMAIN task : task[pk].status = FAILED /\ task[pk].completed = Null
  /\ last.op = "rerun"
  /\ last.phase = "committed"

\* ------------------------------------------ the Task operations on their own
\* A fifth specification: stored tasks, and calls of task_set.create, finish,
\* fail and enqueue on any of them in any order, each outside an atomic
\* block (its write is stored and its callback runs at once).

\* No call inserts a row beyond this primary key.
MaxRows == 2
\* No call dispatches a message into a queue that has this many.
MaxQueue == 2

\* Who finishes a task: nobody in particular, or a user.
Users == {Null, "u"}

\* The connection of a caller outside any atomic block.
OpsConn == Conn(proc, task, links, <<>>, queue, FALSE)

\* The instances an operation can be called on: a stored task loaded, or the
\* instance the previous call was made on.
OpsInstances ==
  {Load(task, pk) : pk \in DOMAIN task}
    \cup (IF last.obj.pk # NoPk THEN {last.obj} ELSE {})

\* The call has returned: c is the caller's connection, obj the instance.
OpsDone(op, c, obj) ==
  /\ task' = c.task
  /\ wtask' = c.task
  /\ queue' = c.queue
  /\ last' = [op |-> op, pk |-> obj.pk, obj |-> obj,
              before |-> IF obj.pk \in DOMAIN task THEN <<task[obj.pk]>> ELSE <<>>]
  /\ UNCHANGED <<proc, links, txOpen, wproc, wlinks, hooks, inflight>>

OpCreate(p, node) ==
  /\ Len(task) < MaxRows
  /\ LET r == TaskSetCreate(OpsConn, p, node, NodeType(node))
     IN OpsDone("create", r.c, r.obj)

OpFinish(obj, user) ==
  LET r == Finish(OpsConn, obj, user) IN OpsDone("finish", r.c, r.obj)

OpFail(obj, tb) ==
  LET r == Fail(OpsConn, obj, tb) IN OpsDone("fail", r.c, r.obj)

OpEnqueue(obj) ==
  /\ Len(queue) < MaxQueue
  /\ LET c == Enqueue(OpsConn, obj)
     IN OpsDone("enqueue", c, [obj EXCEPT !.status = SCHEDULED, !.completed = Null,
                                          !.exception = EmptyStr, !.stacktrace = EmptyStr,
                                          !.modified = Now])

InitOps ==
  /\ proc = <<[data |-> "a", modified |-> Earlier]>>
  /\ task = <<[f \in Fields |->
                 [NewTask(1, "work", MACHINE) EXCEPT !.created = Earlier,
                                                     !.modified = Earlier][f]]>>
  /\ links = {}
  /\ queue = <<>>
  /\ txOpen = FALSE
  /\ wproc = proc
  /\ wtask = task
  /\ wlinks = {}
  /\ hooks = <<>>
  /\ last = [op |-> "none", pk |-> NoPk, obj |-> NewTask(NoPk, "", NoType), before |-> <<>>]
  /\ inflight = <<>>

NextOps ==
  \/ OpCreate(1, "work")
  \/ \E obj \in OpsInstances, user \in Users : OpFinish(obj, user)
  \/ \E obj \in OpsInstances : OpFail(obj, TbError)
  \/ \E obj \in OpsInstances : OpEnqueue(obj)

SpecOps == InitOps /\ [][NextOps]_vars

\* ----------------------------------------------------------------- C17
\* The columns Task.enqueue resets, and modified.
EnqueueColumns == {"status", "completed", "exception", "stacktrace", "modified"}

\* The stored row has the values a row has when it is created.
AsCreated(row) ==
  /\ row.status = SCHEDULED
  /\ row.completed = Null
  /\ row.completed_by_user = Null
  /\ row.exception = EmptyStr
  /\ row.stacktrace = EmptyStr

\* This step is a call of enqueue on the stored task pk.
EnqueueStep(pk) == last'.op = "enqueue" /\ last'.pk = pk

\* enqueue stores the task as scheduled, not completed and without error,
\* touches no other column but modified and no other row, and dispatches one
\* message with the task's pk and process id.
EnqueueResets ==
  \A pk \in DOMAIN task :
    EnqueueStep(pk) =>
      /\ task'[pk].status = SCHEDULED
      /\ task'[pk].completed = Null
      /\ task'[pk].exception = EmptyStr
      /\ task'[pk].stacktrace = EmptyStr
      /\ \A f \in Fields \ EnqueueColumns : task'[pk][f] = task[pk][f]
      /\ Len(task') = Len(task)
      /\ \A other \in DOMAIN task \ {pk} : task'[other] = task[other]
      /\ queue' = Append(queue, <<pk, task[pk].process>>)

\* fail on a task that was as created, then enqueue on it: every column but
\* modified is what it was before the failure.
FailThenEnqueueRestores ==
  \A pk \in DOMAIN task :
    (/\ EnqueueStep(pk)
     /\ last.op = "fail"
     /\ last.pk = pk
     /\ AsCreated(last.before[1])) =>
      /\ AsCreated(task'[pk])
      /\ \A f \in Fields \ {"modified"} : task'[pk][f] = last.before[1][f]

\* C17: Task.enqueue on a task in any status leaves the stored task scheduled
\* with completed null and exception and stacktrace empty, and dispatches
\* exactly one message carrying the task's pk and process id; fail followed
\* by enqueue returns a task that was as created to that stored state.
C17_EnqueueResets ==
  [][EnqueueResets /\ FailThenEnqueueRestores]_vars

\* A task that was as created failed and was enqueued again: its row is as
\* created once more and its message is in the queue.
C17_Witness ==
  /\ last.op = "enqueue"
  /\ last.before # <<>>
  /\ last.before[1].status = FAILED
  /\ last.before[1].exception # EmptyStr
  /\ AsCreated(task[last.pk])
  /\ Count(queue, <<last.pk, task[last.pk].process>>) = 1

\* enqueue was called on a succeeded task.
C17_SucceededEnqueued ==
  /\ last.op = "enqueue"
  /\ last.before # <<>>
  /\ last.before[1].status = SUCCEEDED
  /\ task[last.pk].status = SCHEDULED
  /\ task[last.pk].completed = Null

\* ----------------------------------------------------------------- C18
\* The latest request is a valid POST to the start view whose body ran: it
\* created the process and one start task, stored succeeded with a completed
\* timestamp and without parent, and one scheduled child per edge that
\* leaves the start node.
StartCreatesProcessAndTask ==
  (last.op = "start" /\ Ran) =>
    LET out == EdgesFrom("start") IN
      /\ last.pk = NoPk
      /\ last.proc = Len(wproc)
      /\ last.phase = "open" => last.proc = Len(proc) + 1
      /\ last.self \in NewPks
      /\ {pk \in NewPks : wtask[pk].node_name = "start"} = {last.self}
      /\ wtask[last.self].process = last.proc
      /\ wtask[last.self].status = SUCCEEDED
      /\ wtask[last.self].completed # Null
      /\ ParentsOf(wlinks, last.self) = {}
      /\ NewPks = {last.self} \cup Range(last.tasks)
      /\ ChildrenOf(wlinks, last.self) = Range(last.tasks)
      /\ Len(last.tasks) = Len(out)
      /\ \A i \in DOMAIN out :
           /\ wtask[last.tasks[i]].node_name = out[i][2]
           /\ wtask[last.tasks[i]].process = last.proc
           /\ wtask[last.tasks[i]].status = SCHEDULED
           /\ wtask[last.tasks[i]].completed = Null
           /\ ParentsOf(wlinks, last.tasks[i]) = {last.self}

\* No start task is ever stored, or written in a transaction, as anything
\* but succeeded, and none has a parent.
StartNeverScheduled ==
  /\ \A pk \in DOMAIN wtask :
       wtask[pk].node_name = "start" =>
         /\ wtask[pk].status = SUCCEEDED
         /\ wtask[pk].completed # Null
         /\ ParentsOf(wlinks, pk) = {}
  /\ \A pk \in DOMAIN task :
       task[pk].node_name = "start" =>
         /\ task[pk].status = SUCCEEDED
         /\ task[pk].completed # Null
         /\ ParentsOf(links, pk) = {}

\* C18: a valid POST to a start (create) view, whose URL carries no pk,
\* creates the process and exactly one task for the start node that is stored
\* directly as succeeded with a completed timestamp and no parent, followed
\* by one scheduled child task per outgoing edge of the start node; the start
\* task is never stored in status scheduled.
C18_StartStoredSucceeded == StartCreatesProcessAndTask /\ StartNeverScheduled

\* A start POST has committed a second process: its start task is succeeded
\* and has its one scheduled approve child.
C18_Witness ==
  /\ last.op = "start"
  /\ last.phase = "committed"
  /\ last.proc = 2
  /\ Len(proc) = 2
  /\ task[last.self].node_name = "start"
  /\ task[last.self].status = SUCCEEDED
  /\ Len(last.tasks) = 1
  /\ task[last.tasks[1]].node_name = "approve"
  /\ task[last.tasks[1]].status = SCHEDULED

\* ----------------------------------------------------------------- C19
\* The nodes of the process graph, read off its edges.
GraphNodes == {"start", "approve", "work", "done"}

\* This step is an override request of a permitted user for a stored process
\* that went as far as the validation of the form.
OverrideValidated ==
  /\ ~txOpen
  /\ last'.op = "override"
  /\ last'.perm
  /\ last'.proc \in DOMAIN proc
  /\ last'.code \in {"200", "302"}

\* An accepted override names at least one node and only nodes of the graph,
\* and every task it creates besides the override task is a task of such a
\* node; a submission that names none or an unknown one is shown again as
\* invalid and changes nothing.
OnlyGraphNodesChosen ==
  OverrideValidated =>
    LET ch == last'.chosen IN
      /\ last'.code = "302" =>
           /\ ch # <<>>
           /\ \A i \in DOMAIN ch : ch[i] \in GraphNodes
           /\ \A pk \in (Len(task) + 1)..Len(wtask') :
                wtask'[pk].node_name \in GraphNodes \cup {"manual_override"}
      /\ (ch = <<>> \/ \E i \in DOMAIN ch : ch[i] \notin GraphNodes) =>
           /\ last'.code = "200"
           /\ ~last'.valid
           /\ last'.tasks = <<>>
           /\ UNCHANGED <<proc, task, links, queue, txOpen, wproc, wtask, wlinks, hooks>>

\* C19: the selectable next tasks of an override are exactly the node names
\* get_nodes returns, the nodes of the process graph; a submission that names
\* an unknown node or no node at all is rejected as invalid, finishes no task
\* and creates no task.
C19_OverrideChoices ==
  /\ [](TaskChoices = GraphNodes /\ "manual_override" \notin TaskChoices)
  /\ [][OnlyGraphNodesChosen]_vars

\* A permitted user's override of a process with an active task named a node
\* of the graph and an unknown one: it was shown again and the active task is
\* still active, with no override task stored.
C19_Witness ==
  /\ last.op = "override"
  /\ last.code = "200"
  /\ last.perm
  /\ last.chosen = <<"work", "bogus">>
  /\ last.proc \in DOMAIN proc
  /\ NullCompleted(task, last.proc) # {}
  /\ \A pk \in DOMAIN task : task[pk].node_name \notin {"manual_override", "bogus"}
  /\ ~txOpen

\* The same for a submission that names no node.
C19_EmptySubmission ==
  /\ last.op = "override"
  /\ last.code = "200"
  /\ last.perm
  /\ last.chosen = <<>>
  /\ ~last.valid
  /\ last.proc \in DOMAIN proc
  /\ NullCompleted(task, last.proc) # {}
  /\ ~txOpen

\* ----------------------------------------------------------------- C20
\* C20: the update_fields requirement holds for every save of a persisted
\* record, Process included: saving an already persisted Process without
\* update_fields is rejected and writes nothing, as it is for Task.
C20_ProcessSaveNeedsUpdateFields ==
  [][(last'.op = "psave" /\ last'.obj.pk # NoPk /\ last'.uf = Absent) =>
       /\ last'.code = "ValueError"
       /\ proc' = proc]_vars

\* What Process.save does instead: without update_fields it writes every
\* column of the stored row, with update_fields the listed ones and modified.
ProcessSaveWritesAll ==
  [][(last'.op = "psave" /\ last'.obj.pk # NoPk) =>
       /\ last'.code = "none"
       /\ proc'[last'.obj.pk].modified = Now
       /\ proc'[last'.obj.pk].data =
            (IF last'.uf = Absent \/ "data" \in last'.uf
             THEN last'.obj.data ELSE proc[last'.obj.pk].data)]_vars

====
